---------------------------- MODULE Spec2Model ----------------------------
(***************************************************************************)
(* Waveform functions of plotting/plottest.py: midi_pitch_to_freq, f, saw, *)
(* square, triangle, f2, f3, f4 and the module-level sample generation.    *)
(*                                                                         *)
(* Numbers are Python floats.  A float is modelled as a binary floating-   *)
(* point value m * 2^e with round-to-nearest-even, the exponent range of   *)
(* binary64 (largest value below 2^1024, smallest positive value 2^-1074), *)
(* infinities and NaN.  The significand has MantBits bits instead of 53,   *)
(* so that the product of two significands is a machine integer of the     *)
(* model checker; every constant of the script (69, 440.0, 44100, 12.0,    *)
(* 100.0, 2.0, 55, 1000) is exactly representable at that width.  A Python *)
(* exception raised by an operation is a value of kind "OverflowError",    *)
(* "ValueError" or "ZeroDivisionError" that every later operation passes   *)
(* on unchanged.                                                           *)
(***************************************************************************)
EXTENDS Integers, Sequences, FiniteSets, TLC

\* Width of the significand (binary64: 53).
MantBits == 14

\* Python float: every finite value is below 2^MaxBin.
MaxBin == 1024
\* Python float: the smallest positive value is 2^MinBin.
MinBin == -1074

EMax == MaxBin - MantBits
EMin == MinBin

RECURSIVE Pow2(_)
Pow2(n) == IF n <= 0 THEN 1 ELSE 2 * Pow2(n - 1)

RECURSIVE BitLen(_)
BitLen(m) == IF m <= 0 THEN 0 ELSE 1 + BitLen(m \div 2)

AbsInt(i) == IF i < 0 THEN -i ELSE i
SgnInt(i) == IF i < 0 THEN -1 ELSE 1

Num(m, e) == [k |-> "num", m |-> m, e |-> e]
Zero      == Num(0, 0)
NaN       == [k |-> "nan", m |-> 0, e |-> 0]
Inf(s)    == [k |-> "inf", m |-> s, e |-> 0]
Raise(x)  == [k |-> x, m |-> 0, e |-> 0]

IsNum(a)  == a.k = "num"
IsNaN(a)  == a.k = "nan"
IsInf(a)  == a.k = "inf"
IsErr(a)  == a.k \in {"OverflowError", "ValueError", "ZeroDivisionError"}
IsZero(a) == IsNum(a) /\ a.m = 0
Sign(a)   == IF a.m < 0 THEN -1 ELSE 1

\* s * (M [+ a positive fraction when sticky]) * 2^E, rounded to nearest,
\* ties to even; gradual underflow at 2^EMin, infinity from 2^MaxBin on.
Round(s, M, E, sticky) ==
    IF M = 0 THEN Zero
    ELSE
    LET L     == BitLen(M)
        sh0   == L - MantBits
        shift == IF E + sh0 < EMin THEN EMin - E ELSE sh0
    IN  IF shift <= 0
        THEN (IF E + shift > EMax THEN Inf(s)
              ELSE Num(s * M * Pow2(-shift), E + shift))
        ELSE IF shift > L THEN Zero
        ELSE
        LET q    == IF shift >= 31 THEN 0 ELSE M \div Pow2(shift)
            r    == IF shift >= 31 THEN M ELSE M % Pow2(shift)
            half == Pow2(shift - 1)
            up   == r > half \/ (r = half /\ (sticky \/ q % 2 = 1))
            m1   == IF up THEN q + 1 ELSE q
            m2   == IF m1 = Pow2(MantBits) THEN Pow2(MantBits - 1) ELSE m1
            e2   == IF m1 = Pow2(MantBits) THEN E + shift + 1 ELSE E + shift
        IN  IF m2 = 0 THEN Zero
            ELSE IF e2 > EMax THEN Inf(s)
            ELSE Num(s * m2, e2)

\* The float nearest to the integer i (exact for |i| < 2^MantBits).
Flt(i) == Round(SgnInt(i), AbsInt(i), 0, FALSE)

\* The float i * 2^e for an integer i of at most MantBits bits.
Scaled(i, e) == Round(SgnInt(i), AbsInt(i), e, FALSE)

\* Position of the bit above the leading bit of |a| (a finite, non-zero).
Top(a) == a.e + BitLen(AbsInt(a.m))

\* Order of the magnitudes of two finite floats: -1, 0, 1.
CmpMag(a, b) ==
    LET x == AbsInt(a.m)
        y == AbsInt(b.m)
    IN  IF x = 0 \/ y = 0 THEN (IF x = y THEN 0 ELSE IF x = 0 THEN -1 ELSE 1)
        ELSE IF Top(a) # Top(b) THEN (IF Top(a) < Top(b) THEN -1 ELSE 1)
        ELSE LET xa == IF a.e >= b.e THEN x * Pow2(a.e - b.e) ELSE x
                 ya == IF b.e > a.e THEN y * Pow2(b.e - a.e) ELSE y
             IN  IF xa = ya THEN 0 ELSE IF xa < ya THEN -1 ELSE 1

\* Order of two finite floats: -1, 0, 1.
CmpNum(a, b) ==
    IF a.m = 0 /\ b.m = 0 THEN 0
    ELSE IF a.m <= 0 /\ b.m >= 0 THEN -1
    ELSE IF a.m >= 0 /\ b.m <= 0 THEN 1
    ELSE IF a.m > 0 THEN CmpMag(a, b) ELSE CmpMag(b, a)

\* Python's a < b on floats: False whenever an operand is NaN.
Lt(a, b) ==
    IF IsNaN(a) \/ IsNaN(b) THEN FALSE
    ELSE IF IsInf(a) THEN a.m < 0 /\ ~(IsInf(b) /\ b.m < 0)
    ELSE IF IsInf(b) THEN b.m > 0
    ELSE CmpNum(a, b) < 0

Gt(a, b) == Lt(b, a)
Le(a, b) == ~IsNaN(a) /\ ~IsNaN(b) /\ ~Lt(b, a)
Ge(a, b) == Le(b, a)

Neg(a) == IF IsNum(a) \/ IsInf(a) THEN [a EXCEPT !.m = -a.m] ELSE a

\* abs(a)
FAbs(a) == IF IsNum(a) \/ IsInf(a) THEN [a EXCEPT !.m = AbsInt(a.m)] ELSE a

\* Sum of two finite floats: exact when the exponents are close, otherwise
\* the larger operand with three guard bits and a sticky bit.
AddNum(a, b) ==
    IF a.m = 0 THEN b
    ELSE IF b.m = 0 THEN a
    ELSE
    LET hi == IF a.e >= b.e THEN a ELSE b
        lo == IF a.e >= b.e THEN b ELSE a
        d  == hi.e - lo.e
    IN  IF d <= 3
        THEN LET S == hi.m * Pow2(d) + lo.m
             IN  Round(SgnInt(S), AbsInt(S), lo.e, FALSE)
        ELSE
        LET k    == d - 3
            far  == k > MantBits
            fl   == IF far THEN (IF lo.m < 0 THEN -1 ELSE 0)
                    ELSE (lo.m - (lo.m % Pow2(k))) \div Pow2(k)
            frac == IF far THEN TRUE ELSE lo.m % Pow2(k) # 0
            S    == hi.m * 8 + fl
        IN  IF S >= 0 THEN Round(1, S, hi.e - 3, frac)
            ELSE IF frac THEN Round(-1, -S - 1, hi.e - 3, TRUE)
            ELSE Round(-1, -S, hi.e - 3, FALSE)

\* a + b
FAdd(a, b) ==
    IF IsErr(a) THEN a
    ELSE IF IsErr(b) THEN b
    ELSE IF IsNaN(a) \/ IsNaN(b) THEN NaN
    ELSE IF IsInf(a) THEN (IF IsInf(b) /\ b.m # a.m THEN NaN ELSE a)
    ELSE IF IsInf(b) THEN b
    ELSE AddNum(a, b)

\* a - b
FSub(a, b) == FAdd(a, Neg(b))

\* a * b
FMul(a, b) ==
    IF IsErr(a) THEN a
    ELSE IF IsErr(b) THEN b
    ELSE IF IsNaN(a) \/ IsNaN(b) THEN NaN
    ELSE IF IsInf(a) \/ IsInf(b)
         THEN (IF IsZero(a) \/ IsZero(b) THEN NaN ELSE Inf(Sign(a) * Sign(b)))
    ELSE Round(Sign(a) * Sign(b), AbsInt(a.m) * AbsInt(b.m), a.e + b.e, FALSE)

\* A finite non-zero float with its significand shifted up to MantBits bits
\* (the exponent may then lie below EMin).
Norm(a) ==
    LET g == MantBits - BitLen(AbsInt(a.m))
    IN  Num(AbsInt(a.m) * Pow2(g), a.e - g)

\* a / b: ZeroDivisionError for a zero divisor.
FDiv(a, b) ==
    IF IsErr(a) THEN a
    ELSE IF IsErr(b) THEN b
    ELSE IF IsZero(b) THEN Raise("ZeroDivisionError")
    ELSE IF IsNaN(a) \/ IsNaN(b) THEN NaN
    ELSE IF IsInf(a) THEN (IF IsInf(b) THEN NaN ELSE Inf(Sign(a) * Sign(b)))
    ELSE IF IsInf(b) \/ IsZero(a) THEN Zero
    ELSE
    LET x  == Norm(a)
        y  == Norm(b)
        n1 == x.m * Pow2(MantBits)
        q1 == n1 \div y.m
        r1 == n1 % y.m
        q  == q1 * 8 + ((r1 * 8) \div y.m)
        st == (r1 * 8) % y.m # 0
    IN  Round(Sign(a) * Sign(b), q, x.e - y.e - MantBits - 3, st)

\* 2^d mod n, by repeated squaring.
RECURSIVE PowMod2(_, _)
PowMod2(d, n) ==
    IF d = 0 THEN 1 % n
    ELSE LET h == PowMod2(d \div 2, n)
             s == (h * h) % n
         IN  IF d % 2 = 1 THEN (2 * s) % n ELSE s

\* C's fmod(a, b) for finite a and finite non-zero b: the exact remainder,
\* with the sign of a and a magnitude below |b|.
FmodNum(a, b) ==
    IF a.m = 0 THEN Zero
    ELSE
    LET x == AbsInt(a.m)
        y == AbsInt(b.m)
    IN  IF a.e >= b.e
        THEN Round(Sign(a), ((x % y) * PowMod2(a.e - b.e, y)) % y, b.e, FALSE)
        ELSE IF b.e - a.e > MantBits THEN a
        ELSE Round(Sign(a), x % (y * Pow2(b.e - a.e)), a.e, FALSE)

\* a % b on floats (CPython float_rem): fmod, then the divisor is added
\* when the remainder is non-zero and its sign differs from the divisor's.
FMod(a, b) ==
    IF IsErr(a) THEN a
    ELSE IF IsErr(b) THEN b
    ELSE IF IsZero(b) THEN Raise("ZeroDivisionError")
    ELSE IF IsNaN(a) \/ IsNaN(b) \/ IsInf(a) THEN NaN
    ELSE IF IsInf(b)
         THEN (IF IsZero(a) \/ Sign(a) = Sign(b) THEN a ELSE b)
    ELSE LET r == FmodNum(a, b)
         IN  IF r.m # 0 /\ Sign(r) # Sign(b) THEN FAdd(r, b) ELSE r

\* Python's max(a, b): the first argument unless the second is greater.
FMax(a, b) ==
    IF IsErr(a) THEN a
    ELSE IF IsErr(b) THEN b
    ELSE IF Gt(b, a) THEN b ELSE a

\* Python's min(a, b): the first argument unless the second is smaller.
FMin(a, b) ==
    IF IsErr(a) THEN a
    ELSE IF IsErr(b) THEN b
    ELSE IF Lt(b, a) THEN b ELSE a

(***************************************************************************)
(* 2 ** y.  The power is computed in fixed point with FxBits fractional    *)
(* bits (the table entries are 2^(1/2), 2^(1/4), ..., 2^(1/256) and the    *)
(* rest of the exponent goes through the series of e^u) and then rounded   *)
(* to a float, which is what the C library's pow delivers.                 *)
(***************************************************************************)
FxBits == 28
FxHalf == 14
FxOne  == Pow2(FxBits)
Ln2Fx  == 186065279
Exp2Table ==
    <<379625062, 319225354, 292730940, 280320109,
      274313427, 271358526, 269893034, 269163258>>

\* a * b / 2^FxBits for fixed-point a, b below 2^(FxBits + 1).
MulFx(a, b) ==
    LET ah == a \div Pow2(FxHalf)
        al == a % Pow2(FxHalf)
        bh == b \div Pow2(FxHalf)
        bl == b % Pow2(FxHalf)
    IN  ah * bh + ((ah * bl + al * bh + ((al * bl) \div Pow2(FxHalf))) \div Pow2(FxHalf))

\* Product of the table entries selected by the top 8 bits of the fraction.
RECURSIVE Exp2Top(_, _)
Exp2Top(bits, j) ==
    IF j = 0 THEN FxOne
    ELSE LET rest == Exp2Top(bits \div 2, j - 1)
         IN  IF bits % 2 = 1 THEN MulFx(rest, Exp2Table[j]) ELSE rest

\* 2^(f28 / 2^FxBits) in fixed point, for 0 <= f28 < 2^FxBits.
Exp2Fx(f28) ==
    LET low == Pow2(FxBits - 8)
        u   == MulFx(f28 % low, Ln2Fx)
        u2  == MulFx(u, u)
        u3  == MulFx(u2, u)
        ser == FxOne + u + (u2 \div 2) + (u3 \div 6)
    IN  MulFx(Exp2Top(f28 \div low, 8), ser)

\* 2 ** y for a finite non-zero float y.
Pow2Num(y) ==
    IF Top(y) <= -(MantBits + 2) THEN Flt(1)
    ELSE IF Top(y) > 12
         THEN (IF y.m > 0 THEN Raise("OverflowError") ELSE Zero)
    ELSE IF y.e >= 0 THEN Round(1, 1, y.m * Pow2(y.e), FALSE)
    ELSE
    LET s   == -y.e
        i   == IF s <= FxBits THEN y.m \div Pow2(s)
               ELSE (IF y.m < 0 THEN -1 ELSE 0)
        f28 == IF s <= FxBits THEN (y.m % Pow2(s)) * Pow2(FxBits - s)
               ELSE (y.m \div Pow2(s - FxBits)) % FxOne
    IN  IF f28 = 0 /\ s <= FxBits THEN Round(1, 1, i, FALSE)
        ELSE Round(1, Exp2Fx(f28), i - FxBits, TRUE)

\* 2 ** y (CPython float_pow with base 2.0): an overflow of the result
\* raises OverflowError, an underflow gives 0.0 or a subnormal.
FPow2(y) ==
    IF IsErr(y) THEN y
    ELSE IF IsNaN(y) THEN NaN
    ELSE IF IsInf(y) THEN (IF y.m > 0 THEN Inf(1) ELSE Zero)
    ELSE IF IsZero(y) THEN Flt(1)
    ELSE LET r == Pow2Num(y)
         IN  IF IsInf(r) THEN Raise("OverflowError") ELSE r

(***************************************************************************)
(* The script: constants and functions of plotting/plottest.py.            *)
(***************************************************************************)
A4_PITCH == 69
A4_FREQ  == 440
FS       == 44100

\* math.pi: the float nearest to pi (PiFx is pi * 2^28, cut).
PiFx == 843314856
pi   == Round(1, PiFx, -FxBits, TRUE)
\* math.tau
tau  == FMul(Flt(2), pi)

\* |x| is so small that sin(x) rounds to x (x^2 / 6 is below half an ulp).
SinTiny(x) == Top(x) <= -((MantBits \div 2) + 1)

\* The float after a finite float, towards +infinity.
NextUp(a) ==
    IF a.m = 0 THEN Num(1, EMin)
    ELSE IF a.m > 0
         THEN (IF a.m + 1 = Pow2(MantBits)
               THEN (IF a.e + 1 > EMax THEN Inf(1)
                     ELSE Num(Pow2(MantBits - 1), a.e + 1))
               ELSE Num(a.m + 1, a.e))
    ELSE IF a.m = -1 THEN Zero
    ELSE IF -a.m = Pow2(MantBits - 1) /\ a.e > EMin
         THEN Num(-(Pow2(MantBits) - 1), a.e - 1)
    ELSE Num(a.m + 1, a.e)

NextDown(a) == Neg(NextUp(Neg(a)))

RECURSIVE Ulps(_, _)
Ulps(a, k) ==
    IF k = 0 \/ ~IsNum(a) THEN a
    ELSE IF k > 0 THEN Ulps(NextUp(a), k - 1)
    ELSE Ulps(NextDown(a), k + 1)

\* Bounds of the input sets.
MaxUlps   == 3
MaxGrid   == 24
MaxSample == 4
MaxPitch  == 140
MaxOct    == 12

Near(a)   == { Ulps(a, k) : k \in -MaxUlps..MaxUlps }
Signed(S) == S \cup { Neg(a) : a \in S }

\* Values math.sin can return for an argument that is not tiny: floats of
\* magnitude at most 1, down to the size of sin(math.pi).
SinValues ==
    Signed({ Flt(1), NextDown(Flt(1)), Scaled(1, -1), Scaled(1, -6),
             FDiv(Flt(1), Flt(100)), Scaled(1, -10), Scaled(1, -MantBits),
             Scaled(1, -(MantBits + 2)) }
           \cup Near(FDiv(Flt(1), Flt(50))))

\* math.sin(x): the possible results.  The library is not part of the
\* script; what it guarantees is NaN for NaN, ValueError ("math domain
\* error") for an infinity, x itself for a tiny x, and a float in [-1, 1].
sin(x) ==
    IF IsErr(x) THEN {x}
    ELSE IF IsNaN(x) THEN {NaN}
    ELSE IF IsInf(x) THEN {Raise("ValueError")}
    ELSE IF IsZero(x) \/ SinTiny(x) THEN {x}
    ELSE SinValues

\* midi_pitch_to_freq counting from middle C (60) instead of A4_PITCH
midi_pitch_to_freq_from_c4(pitch) ==
    FMul(FPow2(FDiv(FSub(pitch, Flt(60)), Flt(12))), Flt(A4_FREQ))

midi_pitch_to_freq(pitch) ==
    FMul(FPow2(FDiv(FSub(pitch, Flt(A4_PITCH)), Flt(12))), Flt(A4_FREQ))

\* t * midi_pitch_to_freq(note_value) * math.tau
phase(t, note_value) == FMul(FMul(t, midi_pitch_to_freq(note_value)), tau)

\* f(t, note_value): the possible results
f(t, note_value) == sin(phase(t, note_value))

\* the fold without the half-period shift: n % math.tau
fold_unshifted(n) == FMod(n, tau)

\* (n + math.pi) % math.tau
fold(n) == FMod(FAdd(n, pi), tau)

saw(n) == FSub(FDiv(fold(n), pi), Flt(1))

\* math.sin(n) * 100.0
scaled_sin(sn) == FMul(sn, Flt(100))

\* square without the upper clamp: max(0.0, math.sin(n) * 100.0) - 1.0
square_of_unclamped(sn) == FSub(FMax(Zero, scaled_sin(sn)), Flt(1))

\* square without the final shift: min(2.0, max(0.0, math.sin(n) * 100.0))
square_of_unshifted(sn) == FMin(Flt(2), FMax(Zero, scaled_sin(sn)))

\* square(n), given the value sn that math.sin(n) returned
square_of(sn) == FSub(FMin(Flt(2), FMax(Zero, scaled_sin(sn))), Flt(1))

\* square(n): the possible results
square(n) == { square_of(sn) : sn \in sin(n) }

\* triangle without abs: saw(n + math.pi / 2.0) * 2.0 - 1.0
triangle_no_abs(n) ==
    FSub(FMul(saw(FAdd(n, FDiv(pi, Flt(2)))), Flt(2)), Flt(1))

triangle(n) ==
    FSub(FMul(FAbs(saw(FAdd(n, FDiv(pi, Flt(2))))), Flt(2)), Flt(1))

\* f2 with the body of f4
f2_as_f4(t, note_value) == triangle(phase(t, note_value))

f2(t, note_value) == saw(phase(t, note_value))

\* f3(t, note_value): the possible results
f3(t, note_value) == square(phase(t, note_value))

f4(t, note_value) == triangle(phase(t, note_value))

(***************************************************************************)
(* Inputs of the calls.                                                    *)
(***************************************************************************)
HalfPi  == FDiv(pi, Flt(2))
Special == { Inf(1), Inf(-1), NaN }

PhaseInputs ==
    Signed(UNION { Near(a) : a \in { HalfPi, pi, FAdd(pi, HalfPi), tau,
                                     FAdd(tau, HalfPi), FAdd(tau, pi) } })
    \cup { Scaled(k, -2) : k \in -MaxGrid..MaxGrid }
    \cup Signed({ Num(1, EMin), Scaled(1, -70), Scaled(1, -20), Scaled(1, -9),
                  Scaled(1, 60), Num(Pow2(MantBits) - 1, EMax) })
    \cup Special

\* 0.0001
E4 == FDiv(Flt(1), Flt(10000))

SampleTimes ==
    { FDiv(Flt(i), Flt(FS)) : i \in (0..MaxSample) \cup (110..(110 + MaxSample)) }

RampTimes ==
    SampleTimes
    \cup Signed({ E4, Scaled(1, -70), Scaled(2, -70), Scaled(1, -10),
                  NextUp(Scaled(1, -10)) })

Times == RampTimes \cup Signed({ Flt(1), Scaled(1, 1000) }) \cup Special

RampPitches == { Flt(55), Flt(69), Flt(127) }

Pitches ==
    { Flt(i) : i \in { 0, 10, 22, 55, 57, 69, 81, 127, -326, 12356, 12357 } }
    \cup Signed({ Scaled(111, -1), Scaled(1, 20) }) \cup Special

MidiPitches == { Flt(i) : i \in 0..127 }

TimePitchInputs ==
    (Times \X Pitches) \cup ({ Neg(E4) } \X MidiPitches)

\* Octaves around A4, and the octaves at the ends of the float range.
Octaves == (-MaxOct..MaxOct)
           \cup { -1080, -1078, -1077, -1076, 1014, 1015, 1016, 1023, 1024 }

PitchInputs ==
    { Flt(i) : i \in -MaxPitch..MaxPitch }
    \cup { Flt(A4_PITCH + 12 * k) : k \in Octaves }
    \cup { Scaled(i, -2) : i \in 0..MaxPitch }
    \cup { Flt(12345), Flt(12356), Flt(12358), Scaled(1, 20), Scaled(-1, 20) }
    \cup Special

Functions ==
    { "midi_pitch_to_freq", "f", "saw", "square", "triangle", "f2", "f3", "f4" }

Inputs(name) ==
    IF name = "midi_pitch_to_freq" THEN { <<p>> : p \in PitchInputs }
    ELSE IF name \in { "saw", "square", "triangle" }
         THEN { <<n>> : n \in PhaseInputs }
    ELSE TimePitchInputs

None == [k |-> "none", m |-> 0, e |-> 0]

(***************************************************************************)
(* The calls.  pc = "call": function fn is about to be called with args;   *)
(* pc = "done": it has returned ret (a float, or the exception it raised). *)
(* sinv is <<the value math.sin returned>> when the call used math.sin.    *)
(* prev is <<the call before this one>> when there was one.                *)
(*                                                                         *)
(* The module-level code (lines 43 to 46): line is the line being run, idx *)
(* the loop variable of its list comprehension, ph the phase of the sample *)
(* appended last, last its value (line 44) and drops the number of samples *)
(* of the list that are below their predecessor.                           *)
(***************************************************************************)
VARIABLES pc, fn, args, ret, sinv, prev, line, idx, ph, last, drops

callVars   == <<pc, fn, args, ret, sinv, prev>>
scriptVars == <<line, idx, ph, last, drops>>
vars       == <<pc, fn, args, ret, sinv, prev, line, idx, ph, last, drops>>

NoScript ==
    /\ line = 0
    /\ idx = 0
    /\ ph = None
    /\ last = None
    /\ drops = 0

NoCall ==
    /\ pc = "idle"
    /\ fn = "none"
    /\ args = <<>>
    /\ ret = None
    /\ sinv = <<>>
    /\ prev = <<>>

Init ==
    /\ pc = "call"
    /\ fn \in Functions
    /\ args \in Inputs(fn)
    /\ ret = None
    /\ sinv = <<>>
    /\ prev = <<>>
    /\ NoScript

Return(v, s) ==
    /\ ret' = v
    /\ sinv' = s
    /\ pc' = "done"
    /\ UNCHANGED <<fn, args, prev>>
    /\ UNCHANGED scriptVars

Call_midi_pitch_to_freq ==
    /\ pc = "call" /\ fn = "midi_pitch_to_freq"
    /\ Return(midi_pitch_to_freq(args[1]), <<>>)

Call_f ==
    /\ pc = "call" /\ fn = "f"
    /\ \E sn \in f(args[1], args[2]) : Return(sn, <<sn>>)

Call_saw ==
    /\ pc = "call" /\ fn = "saw"
    /\ Return(saw(args[1]), <<>>)

Call_square ==
    /\ pc = "call" /\ fn = "square"
    /\ \E sn \in sin(args[1]) : Return(square_of(sn), <<sn>>)

Call_triangle ==
    /\ pc = "call" /\ fn = "triangle"
    /\ Return(triangle(args[1]), <<>>)

Call_f2 ==
    /\ pc = "call" /\ fn = "f2"
    /\ Return(f2(args[1], args[2]), <<>>)

Call_f3 ==
    /\ pc = "call" /\ fn = "f3"
    /\ \E sn \in sin(phase(args[1], args[2])) : Return(square_of(sn), <<sn>>)

Call_f4 ==
    /\ pc = "call" /\ fn = "f4"
    /\ Return(f4(args[1], args[2]), <<>>)

\* The arguments of a second call of the same function: the pitch an
\* octave up, another time at the same pitch, the next phase.
SecondArgs ==
    IF fn = "midi_pitch_to_freq" /\ IsNum(args[1])
    THEN { <<FAdd(args[1], Flt(12))>> }
    ELSE IF fn = "f2" /\ args[1] \in RampTimes /\ args[2] \in RampPitches
    THEN { <<t, args[2]>> : t \in RampTimes }
    ELSE IF fn \in { "saw", "triangle" } /\ IsNum(args[1])
    THEN { <<NextUp(args[1])>> }
    ELSE {}

CallAgain ==
    /\ pc = "done" /\ prev = <<>>
    /\ \E a \in SecondArgs :
          /\ args' = a
          /\ prev' = << [args |-> args, ret |-> ret] >>
          /\ pc' = "call"
          /\ ret' = None
          /\ sinv' = <<>>
          /\ UNCHANGED fn
          /\ UNCHANGED scriptVars

Next ==
    \/ Call_midi_pitch_to_freq
    \/ Call_f
    \/ Call_saw
    \/ Call_square
    \/ Call_triangle
    \/ Call_f2
    \/ Call_f3
    \/ Call_f4
    \/ CallAgain

Spec == Init /\ [][Next]_vars

(***************************************************************************)
(* The module-level code.                                                  *)
(***************************************************************************)
\* range(1000)
SAMPLES == 1000
\* the note plotted
NOTE == 55

\* t // FS: the division of two ints truncated
SampleTime_floordiv(i) == Flt(i \div FS)

\* t / FS for the loop variable t
SampleTime(i) == FDiv(Flt(i), Flt(FS))

ScriptInit ==
    /\ NoCall
    /\ line = 43
    /\ idx = 0
    /\ ph = None
    /\ last = None
    /\ drops = 0

\* line 43: one element of [f(t / FS, 55) for t in range(1000)]; the
\* element is math.sin(ph), which only the plot reads.
SineSample ==
    /\ line = 43 /\ idx < SAMPLES
    /\ ph' = phase(SampleTime(idx), Flt(NOTE))
    /\ last' = None
    /\ idx' = idx + 1
    /\ UNCHANGED <<line, drops>>
    /\ UNCHANGED callVars

\* line 43: plt.plot of the finished list
PlotSine ==
    /\ line = 43 /\ idx = SAMPLES
    /\ line' = 44
    /\ idx' = 0
    /\ ph' = None
    /\ last' = None
    /\ UNCHANGED drops
    /\ UNCHANGED callVars

\* line 44: one element of [f2(t / FS, 55) for t in range(1000)]
SawSample ==
    /\ line = 44 /\ idx < SAMPLES
    /\ LET y == f2(SampleTime(idx), Flt(NOTE))
       IN  /\ last' = y
           /\ drops' = IF idx > 0 /\ Lt(y, last) THEN drops + 1 ELSE drops
    /\ ph' = phase(SampleTime(idx), Flt(NOTE))
    /\ idx' = idx + 1
    /\ UNCHANGED line
    /\ UNCHANGED callVars

\* line 44: plt.plot of the finished list
PlotSaw ==
    /\ line = 44 /\ idx = SAMPLES
    /\ line' = 46
    /\ UNCHANGED <<idx, ph, last, drops>>
    /\ UNCHANGED callVars

\* line 46: plt.show()
Show ==
    /\ line = 46
    /\ line' = 47
    /\ UNCHANGED <<idx, ph, last, drops>>
    /\ UNCHANGED callVars

ScriptNext ==
    \/ SineSample
    \/ PlotSine
    \/ SawSample
    \/ PlotSaw
    \/ Show

SpecScript == ScriptInit /\ [][ScriptNext]_vars

(***************************************************************************)
(* Properties.                                                             *)
(***************************************************************************)
One      == Flt(1)
MinusOne == Flt(-1)
Two      == Flt(2)

InUnit(v)      == IsNum(v) /\ Le(MinusOne, v) /\ Le(v, One)
Returned(name) == pc = "done" /\ fn = name
Before         == prev[1]

\* v is the finite float i * 2^e (i > 0).
ExactValue(v, i, e) ==
    /\ IsNum(v) /\ v.m > 0
    /\ LET g == BitLen(v.m) - BitLen(i)
       IN  /\ v.e + g = e
           /\ IF g >= 0 THEN v.m = i * Pow2(g) ELSE i = v.m * Pow2(-g)

\* |a - b| <= 2^g ulp-sized fractions of |a|: |a - b| <= |a| * 2^(g - MantBits)
Close(a, b, g) ==
    /\ IsNum(a) /\ IsNum(b)
    /\ Le(FAbs(FSub(a, b)), FMul(Scaled(1, g - MantBits), FAbs(a)))

\* |a - b| <= 2^(g - MantBits)
Within(a, b, g) ==
    /\ IsNum(a) /\ IsNum(b)
    /\ Le(FAbs(FSub(a, b)), Scaled(1, g - MantBits))

\* floor(v / math.tau) for a finite float v of moderate size: the number of
\* the ramp that (n + math.pi) % math.tau folds v into.
WrapIndex(v) ==
    IF v.m = 0 THEN 0
    ELSE IF tau.e - v.e > MantBits THEN (IF v.m < 0 THEN -1 ELSE 0)
    ELSE IF v.e >= tau.e THEN (v.m * Pow2(v.e - tau.e)) \div tau.m
    ELSE v.m \div (tau.m * Pow2(tau.e - v.e))

Moderate(v) == IsNum(v) /\ (v.m = 0 \/ Top(v) <= 10)

\* C1: every value square and f3 return lies in [-1.0, 1.0], whatever
\* math.sin returned.
C1_SquareInRange ==
    (pc = "done" /\ fn \in { "square", "f3" } /\ ~IsErr(ret)) => InUnit(ret)

C1_Witness ==
    /\ Returned("f3") /\ IsNum(ret)
    /\ Lt(MinusOne, ret) /\ Lt(ret, One)
    /\ sinv # <<>> /\ Gt(sinv[1], Zero)

\* C2: for every finite phase x the fold (x + pi) % tau lies in [0, tau)
\* and saw(x) lies in [-1.0, 1.0).
C2_SawHalfOpen ==
    (Returned("saw") /\ IsNum(args[1])) =>
        /\ Le(Zero, fold(args[1])) /\ Lt(fold(args[1]), tau)
        /\ Le(MinusOne, ret) /\ Lt(ret, One)

InMidi(p) == IsNum(p) /\ Le(Zero, p) /\ Le(p, Flt(127))

\* C3 as stated: midi_pitch_to_freq(69 + 12k) = 440 * 2^k for every
\* integer k, and midi_pitch_to_freq(p + 12) = 2 * midi_pitch_to_freq(p).
C3_OctavesExact ==
    /\ \A k \in Octaves :
          (Returned("midi_pitch_to_freq") /\ args[1] = Flt(A4_PITCH + 12 * k))
             => ExactValue(ret, 55, k + 3)
    /\ (Returned("midi_pitch_to_freq") /\ prev # <<>>)
          => ret = FMul(Two, Before.ret)

\* C3 amended: midi_pitch_to_freq(69 + 12k) = 440 * 2^k exactly for
\* -1074 <= k <= 1015, and for a pitch p in 0..127 midi_pitch_to_freq(p + 12)
\* and 2 * midi_pitch_to_freq(p) differ by at most 2^(5 - MantBits) of
\* their size (2^-48 for a 53-bit float).
C3_OctavesInRange ==
    /\ \A k \in Octaves :
          ( /\ Returned("midi_pitch_to_freq")
            /\ args[1] = Flt(A4_PITCH + 12 * k)
            /\ k >= MinBin /\ k + 9 <= MaxBin )
             => ExactValue(ret, 55, k + 3)
    /\ ( /\ Returned("midi_pitch_to_freq")
         /\ prev # <<>> /\ InMidi(Before.args[1]) )
          => Close(ret, FMul(Two, Before.ret), 5)

C3_Witness ==
    /\ Returned("midi_pitch_to_freq") /\ prev # <<>>
    /\ Before.args[1] = Flt(A4_PITCH) /\ Before.ret = Flt(A4_FREQ)
    /\ ret = Flt(880)

\* Two calls of f2 at the same pitch, the second at a later time, whose
\* phases fold into the same ramp.
SameRamp ==
    /\ Returned("f2") /\ prev # <<>>
    /\ Lt(Before.args[1], args[1])
    /\ LET v1 == FAdd(phase(Before.args[1], Before.args[2]), pi)
           v2 == FAdd(phase(args[1], args[2]), pi)
       IN  Moderate(v1) /\ Moderate(v2) /\ WrapIndex(v1) = WrapIndex(v2)

\* C4 as stated: between wraps the sawtooth is strictly increasing.
C4_StrictRamp == SameRamp => Gt(ret, Before.ret)

\* C4 amended: between wraps the sawtooth never decreases.
C4_MonotoneRamp == SameRamp => Ge(ret, Before.ret)

C4_Witness == SameRamp /\ Gt(ret, Before.ret) /\ Lt(args[1], Zero)

\* C5 as stated: sawtooth(-0.0001, p) is close to +1.0 for every MIDI pitch.
C5_NearTop ==
    (Returned("f2") /\ args[1] = Neg(E4) /\ args[2] \in MidiPitches)
        => Ge(ret, Scaled(1, -1))

\* C5 amended: sawtooth(-0.0001, p) is the small negative value
\* -0.0002 * frequency(p) for every MIDI pitch up to 111, between -0.040
\* and -0.038 for pitch 55.
C5_NearZero ==
    /\ ( /\ Returned("f2") /\ args[1] = Neg(E4)
         /\ args[2] \in MidiPitches /\ Le(args[2], Flt(111)) )
          => /\ Lt(ret, Zero) /\ Gt(ret, MinusOne)
             /\ Within(ret, FMul(FMul(Two, args[1]),
                                 midi_pitch_to_freq(args[2])), 3)
    /\ (Returned("f2") /\ args = <<Neg(E4), Flt(NOTE)>>)
          => /\ Lt(FDiv(Flt(-40), Flt(1000)), ret)
             /\ Lt(ret, FDiv(Flt(-38), Flt(1000)))

C5_Witness ==
    Returned("f2") /\ args = <<Neg(E4), Flt(NOTE)>> /\ Lt(ret, Zero)

\* The sawtooth under triangle(n) and its fold.
TriFold(n) == fold(FAdd(n, HalfPi))
TriSaw(n)  == saw(FAdd(n, HalfPi))

\* C6: triangle(n) lies in [-1.0, 1.0]; it is +1.0 exactly where the fold
\* of the shifted sawtooth is 0; and across the sawtooth's drop (between
\* two neighbouring phases) the two values of the triangle agree up to
\* rounding.
C6_TrianglePeak ==
    /\ (Returned("triangle") /\ IsNum(args[1]))
          => /\ InUnit(ret)
             /\ (ret = One <=> IsZero(TriFold(args[1])))
    /\ ( /\ Returned("triangle") /\ prev # <<>>
         /\ Moderate(args[1]) /\ Top(args[1]) <= 4
         /\ Lt(TriSaw(args[1]), TriSaw(Before.args[1])) )
          => /\ Within(ret, Before.ret, 5)
             /\ Within(ret, One, 5)

C6_Witness ==
    /\ Returned("triangle") /\ prev # <<>>
    /\ Lt(TriSaw(args[1]), TriSaw(Before.args[1]))
    /\ ret = One /\ Lt(Before.ret, One)

\* C7: no call of midi_pitch_to_freq, f, f2, f3 or f4 raises, whatever the
\* arguments: every call returns a float.
C7_NeverRaises ==
    (pc = "done" /\ fn \in { "midi_pitch_to_freq", "f", "f2", "f3", "f4" })
        => ~IsErr(ret)

\* A call of square or f3 in which math.sin returned a float.
SquareCall == pc = "done" /\ fn \in { "square", "f3" } /\ sinv # <<>>
               /\ (IsNum(sinv[1]) \/ IsNaN(sinv[1]))
OnRamp(v)  == Lt(Zero, v) /\ Lt(v, Two)

\* C9 as stated: the result is strictly between -1.0 and +1.0, and equal
\* to 100 * sin(x) - 1, exactly where 0 < 100 * sin(x) < 2; it is -1.0 where
\* sin(x) <= 0 and +1.0 where 100 * sin(x) >= 2.
C9_RampStrict ==
    SquareCall =>
        LET v == scaled_sin(sinv[1])
        IN  /\ OnRamp(v) <=> (Lt(MinusOne, ret) /\ Lt(ret, One))
            /\ OnRamp(v) => ret = FSub(v, One)
            /\ Le(sinv[1], Zero) => ret = MinusOne
            /\ Ge(v, Two) => ret = One

\* C9 amended: where 0 < 100 * sin(x) < 2 the result is 100 * sin(x) - 1
\* rounded, in [-1.0, 1.0), and it is -1.0 there exactly when 100 * sin(x)
\* is at most half the spacing of the floats just above -1.0 (2^-54 for a
\* 53-bit float); it is -1.0 where sin(x) <= 0 or sin(x) is NaN, +1.0
\* where 100 * sin(x) >= 2, and strictly between only on the ramp.
C9_RampRounded ==
    SquareCall =>
        LET v == scaled_sin(sinv[1])
        IN  /\ OnRamp(v) => /\ ret = FSub(v, One)
                            /\ Le(MinusOne, ret) /\ Lt(ret, One)
                            /\ (ret = MinusOne
                                  <=> Le(v, Scaled(1, -(MantBits + 1))))
            /\ (Le(sinv[1], Zero) \/ IsNaN(sinv[1])) => ret = MinusOne
            /\ Ge(v, Two) => ret = One
            /\ (Lt(MinusOne, ret) /\ Lt(ret, One)) => OnRamp(v)

C9_Witness ==
    /\ SquareCall /\ OnRamp(scaled_sin(sinv[1]))
    /\ ret = MinusOne /\ Returned("square")

\* C10 as stated: over the 1000 samples the phase stays below one cycle
\* and the sawtooth of line 44 never drops.
C10_NoWrap ==
    /\ drops = 0
    /\ IsNum(ph) => Lt(ph, tau)

\* C10 amended: the 1000 samples span between 4 and 5 cycles and the
\* sawtooth of line 44 drops 4 times.
C10_FourWraps ==
    (line \in { 46, 47 }) =>
        /\ idx = SAMPLES
        /\ drops = 4
        /\ Le(FMul(Flt(4), tau), ph) /\ Lt(ph, FMul(Flt(5), tau))

C10_Witness == line = 47 /\ drops > 0 /\ idx = SAMPLES
=============================================================================
